---- MODULE Spec2Model ----
(***************************************************************************)
(* RepetierServerOutputDevice (src/RepetierServerOutputDevice.py): the     *)
(* connection / polling state machine and the upload sequence of the Cura  *)
(* Repetier-Server output device, as a state machine over the object's     *)
(* fields, the Qt timers, the requests in flight on the QNetworkAccess-    *)
(* Manager and the wall clock.                                             *)
(*                                                                         *)
(* Every method is a pure operator from the object (a record `s` of its    *)
(* fields) to the object after the call, so that a method calling another  *)
(* (connect -> _createNetworkManager, _update; requestWrite -> startPrint; *)
(* abort() -> finished -> _onRequestFinished) is composition.  The actions *)
(* apply one handler to the current fields and draw its inputs (the reply, *)
(* the configuration, the progress numbers) from small sets.               *)
(*                                                                         *)
(* Left out, as no state of the machine depends on them: the temperatures  *)
(* and the job name, time and progress read from the polls, the connection *)
(* text, the camera image and the "saved" notice shown without auto-print. *)
(* The API key is taken to be set.  The base class PrinterOutputDevice is  *)
(* Cura's: its __init__ leaves the device accepting commands, Closed and   *)
(* with the job state "".                                                  *)
(***************************************************************************)
EXTENDS Integers, Sequences, FiniteSets, TLC

(***************************************************************************)
(* Program constants.                                                      *)
(***************************************************************************)
\* _response_timeout_time, line 104 (seconds)
response_timeout_time == 5

\* _recreate_network_manager_time, line 105 (seconds)
recreate_network_manager_time == 30

\* _update_timer.setInterval(2000), line 87, in seconds
UpdateInterval == 2

\* float("inf"), line 173: larger than any time difference of the model
Infinity == 1000000

\* _slug, line 38
slug == "fanera1"

(***************************************************************************)
(* Bounds of the model.                                                    *)
(***************************************************************************)
\* the wall clock runs from StartTime to MaxTime
MaxTime == 9

\* the wall clock's end for a silence found after more than two re-creation
\* intervals
MaxSilenceTime == 64

\* ... and to MaxStallTime where the silence is long
MaxStallTime == 34

\* ... and to MaxOutageTime where the network is lost for long
MaxOutageTime == 36

\* ... and to MaxDropTime where uploads meet a lost network
MaxDropTime == 5

\* the clock may jump by LongSleep * recreate_network_manager_time + 1 when
\* the event loop is not served (the machine sleeps); 0 switches that off
LongSleeps == 1

\* requests of one kind in flight on the manager
MaxOutstanding == 2

\* the cap on the commands posted and not yet answered: _moveHead posts
\* three at once
MaxCommands == 3

\* printer records in one listPrinter answer
MaxPrinters == 2

\* entries of the model list in one upload answer
MaxModels == 2

\* bytesTotal of the upload progress events (0 stands for "not known")
MaxBytes == 2

\* startPrint calls that may be suspended in processEvents() at one time
MaxNesting == 1

StartTime == 1

(***************************************************************************)
(* Values.                                                                 *)
(***************************************************************************)
\* Python's None, for the optional fields
None == "None"

\* an unset time (None); every time() of the model is >= StartTime, hence truthy
NoTime == 0

\* cura.PrinterOutputDevice.ConnectionState, an IntEnum: closed = 0,
\* connecting = 1, connected = 2, busy = 3, error = 4
ConnectionStates == {"closed", "connecting", "connected", "error"}

\* Truth value of an Optional[ConnectionState] in `if x:` -- None is false and
\* so is ConnectionState.closed, whose IntEnum value is 0.
Truthy(x) == x # None /\ x # "closed"

\* The requests the device issues, by the URL the router sees.
\*   stateList, listPrinter : _update            (GET)
\*   snapshot               : _update_camera     (GET)
\*   upload                 : startPrint         (POST .../printer/model/...)
\*   copyModel              : after the upload   (GET)
\*   command                : _setJobState       (GET stopJob/continueJob/send)
\*   command_post           : _sendCommand       (POST .../job)
Kinds ==
    {"stateList", "listPrinter", "snapshot", "upload", "copyModel", "command",
     "command_post"}

\* reply.operation() == QNetworkAccessManager.GetOperation, line 490
GetKinds == Kinds \ {"upload", "command_post"}

NoInflight == [k \in Kinds |-> 0]

\* QNetworkReply.error(): NoError, TimeoutError, or any other error
\* (connection refused, operation cancelled, or the error Qt derives from an
\* HTTP status >= 400)
Errors == {"NoError", "TimeoutError", "OtherError"}

\* HttpStatusCodeAttribute; 0 stands for the absent attribute (None)
NoStatus == 0

\* UM.Message as far as the device uses it: which text, its progress
\* (Message(text, 0, False, -1) starts at -1) and whether it is shown
NoMessage == [text |-> None, progress |-> -1, visible |-> FALSE]

NewProgressMessage(text) == [text |-> text, progress |-> -1, visible |-> TRUE]

HideMessage(m) == [m EXCEPT !.visible = FALSE]

NoRequest == [a |-> None, id |-> 0]

(***************************************************************************)
(* State.                                                                  *)
(***************************************************************************)
VARIABLES
    connection_state,                 \* PrinterOutputDevice._connection_state
    connection_state_before_timeout,  \* None or the state a timeout interrupted
    last_response_time,               \* NoTime or time() of the last good reply
    last_request_time,                \* NoTime: no method ever assigns it
    recreate_network_manager_count,
    update_timer,                     \* "stopped", "waiting" or "due"
    camera_timer,                     \* TRUE when the camera timer runs
    inflight,                         \* Kinds -> requests in flight on _manager
    orphaned,                         \* replies of a discarded manager in flight
    printer_request,                  \* the URL of _printer_request
    job_state,                        \* PrinterOutputDevice._job_state
    accepts_commands,
    gcode,                            \* TRUE when _gcode holds a list
    post_reply,                       \* None, "running", "finished", "aborted", "deleted"
    progress_message,
    error_message,                    \* the Message "busy" or "unable"
    connection_message,               \* None, "network" or "server"
    assembling,                       \* startPrint calls suspended in processEvents()
    now,                              \* time()
    network_accessible,               \* _manager.networkAccessible()
    last_op                           \* the handler that ran last, and its input

fields == <<connection_state, connection_state_before_timeout, last_response_time,
            last_request_time, recreate_network_manager_count, update_timer,
            camera_timer, inflight, orphaned, printer_request, job_state,
            accepts_commands, gcode, post_reply,
            progress_message, error_message, connection_message>>

vars == <<fields, assembling, now, network_accessible, last_op>>

\* The object, as a record of its fields.
Self ==
    [connection_state |-> connection_state,
     connection_state_before_timeout |-> connection_state_before_timeout,
     last_response_time |-> last_response_time,
     last_request_time |-> last_request_time,
     recreate_network_manager_count |-> recreate_network_manager_count,
     update_timer |-> update_timer,
     camera_timer |-> camera_timer,
     inflight |-> inflight,
     orphaned |-> orphaned,
     printer_request |-> printer_request,
     job_state |-> job_state,
     accepts_commands |-> accepts_commands,
     gcode |-> gcode,
     post_reply |-> post_reply,
     progress_message |-> progress_message,
     error_message |-> error_message,
     connection_message |-> connection_message]

\* The fields after a handler returned the object s.
Becomes(s) ==
    /\ connection_state' = s.connection_state
    /\ connection_state_before_timeout' = s.connection_state_before_timeout
    /\ last_response_time' = s.last_response_time
    /\ last_request_time' = s.last_request_time
    /\ recreate_network_manager_count' = s.recreate_network_manager_count
    /\ update_timer' = s.update_timer
    /\ camera_timer' = s.camera_timer
    /\ inflight' = s.inflight
    /\ orphaned' = s.orphaned
    /\ printer_request' = s.printer_request
    /\ job_state' = s.job_state
    /\ accepts_commands' = s.accepts_commands
    /\ gcode' = s.gcode
    /\ post_reply' = s.post_reply
    /\ progress_message' = s.progress_message
    /\ error_message' = s.error_message
    /\ connection_message' = s.connection_message

\* __init__, lines 23-106
InitSelf ==
    [connection_state |-> "closed",
     connection_state_before_timeout |-> None,
     last_response_time |-> NoTime,
     last_request_time |-> NoTime,
     recreate_network_manager_count |-> 1,
     update_timer |-> "stopped",
     camera_timer |-> FALSE,
     inflight |-> NoInflight,
     orphaned |-> FALSE,
     printer_request |-> NoRequest,
     job_state |-> "",
     accepts_commands |-> TRUE,
     gcode |-> FALSE,
     post_reply |-> None,
     progress_message |-> NoMessage,
     error_message |-> NoMessage,
     connection_message |-> None]

(***************************************************************************)
(* The transport.                                                          *)
(***************************************************************************)
\* self._manager.get(...) / .post(...): one more request of kind k in flight
Send(s, k) == [s EXCEPT !.inflight[k] = @ + 1]

\* a reply of kind k was delivered or cancelled
Done(s, k) == [s EXCEPT !.inflight[k] = @ - 1]

AnyInflight(s) == \E k \in Kinds : s.inflight[k] > 0

\* PrinterOutputDevice.setConnectionState
setConnectionState(s, state) == [s EXCEPT !.connection_state = state]

\* PrinterOutputDevice._updateJobState
updateJobState(s, state) == [s EXCEPT !.job_state = state]

\* PrinterOutputDevice.setAcceptsCommands
setAcceptsCommands(s, b) == [s EXCEPT !.accepts_commands = b]

\* _createNetworkManager without line 243: the old manager's finished
\* signal stays connected and its requests stay in flight
createNetworkManagerKeepsSignal(s) == s

\* _createNetworkManager, lines 241-246: the finished signal of the old
\* manager is disconnected and the manager dropped, so the replies still in
\* flight on it are never handed to _onRequestFinished; the reply the device
\* holds in _post_reply is a child of that manager and loses its C++ object
\* with it.
createNetworkManager(s) ==
    [s EXCEPT !.orphaned = s.orphaned \/ AnyInflight(s),
              !.inflight = NoInflight,
              !.post_reply = IF s.post_reply # None THEN "deleted" ELSE @]

(***************************************************************************)
(* Replies.  A reply carries its request's kind (the method and URL the    *)
(* router looks at), QNetworkReply.error(), the HTTP status attribute and  *)
(* what the handlers read of the body: whether it parses as the JSON the   *)
(* handler expects, the printer records of a listPrinter answer and the    *)
(* ids of the model list of an upload answer.  `held` tells an upload      *)
(* reply that is the one _post_reply holds from an older one, `location`   *)
(* whether the answer carries a Location header.                           *)
(***************************************************************************)
Reply(kind, err, status, json, printers, models, held, location) ==
    [kind |-> kind, err |-> err, status |-> status, json |-> json,
     printers |-> printers, models |-> models, held |-> held,
     location |-> location]

NoReply == Reply(None, "NoError", NoStatus, FALSE, <<>>, <<>>, FALSE, FALSE)

\* what abort() hands to the finished signal: OperationCanceledError, no status
CancelledReply ==
    Reply("upload", "OtherError", NoStatus, FALSE, <<>>, <<>>, TRUE, FALSE)

\* json_data = json.loads(...) and the subscripts that follow raise on a body
\* that is not the expected JSON, and so does .toString() on the None that
\* reply.header() gives for an absent header; the handler ends there
Raises(s) == s

\* lines 534-550, one record of the answer: a record of another slug is
\* skipped, the matching one decides the job state
jobStateOf(printer) ==
    IF printer.paused = "true" THEN "paused"
    ELSE IF printer.job # "none" THEN "printing"
    ELSE "ready"

RECURSIVE listPrinter(_, _)
\* lines 532-550: for printer in json_data
listPrinter(s, printers) ==
    IF printers = <<>> THEN s
    ELSE LET printer == Head(printers)
             s1 == IF printer.slug = slug
                   THEN updateJobState(s, jobStateOf(printer))
                   ELSE s
         IN listPrinter(s1, Tail(printers))

\* onStateList with the state set to Connected outside the test of the
\* status: a reply of any status ends Connecting
onStateListAnyStatus(s, r) ==
    LET s1 == IF r.status = 200 /\ ~s.accepts_commands
              THEN setAcceptsCommands(s, TRUE)
              ELSE IF r.status = 401 THEN setAcceptsCommands(s, FALSE)
              ELSE s
    IN IF s1.connection_state = "connecting"
       THEN setConnectionState(s1, "connected")
       ELSE s1

\* onStateList without the branch for status 401
onStateListIgnores401(s, r) ==
    IF r.status = 200
    THEN LET s1 == IF ~s.accepts_commands THEN setAcceptsCommands(s, TRUE) ELSE s
         IN IF s1.connection_state = "connecting"
            THEN setConnectionState(s1, "connected")
            ELSE s1
    ELSE s

\* lines 491-528: a reply to ?a=stateList
onStateList(s, r) ==
    IF r.status = 200
    THEN LET s1 == IF ~s.accepts_commands THEN setAcceptsCommands(s, TRUE) ELSE s
         IN IF s1.connection_state = "connecting"
            THEN setConnectionState(s1, "connected")
            ELSE s1
    ELSE IF r.status = 401 THEN setAcceptsCommands(s, FALSE)
    ELSE s

\* lines 530-571: a reply to ?a=listPrinter
onListPrinter(s, r) ==
    IF r.status = 200
    THEN IF r.json THEN listPrinter(s, r.printers) ELSE Raises(s)
    ELSE s

\* lines 581-619: a reply to the POST to .../printer/model/<slug>?a=upload.
\* An answer with status 201 has its Location header logged (line 583),
\* which raises when the header is absent.  Then, whatever the status, the
\* body is parsed, the last model's id taken and the copyModel request sent,
\* and the progress message is hidden.
onUpload(s, r) ==
    IF r.status = 201 /\ ~r.location THEN Raises(s)
    ELSE IF ~r.json \/ r.models = <<>> THEN Raises(s)
    ELSE LET modelId == r.models[Len(r.models)]
             s1 == Send([s EXCEPT !.printer_request =
                                     [a |-> "copyModel", id |-> modelId]],
                        "copyModel")
         IN [s1 EXCEPT !.progress_message = HideMessage(@)]

\* lines 485-628: the router
route(s, r) ==
    IF r.kind \in GetKinds
    THEN IF r.kind = "stateList" THEN onStateList(s, r)
         ELSE IF r.kind = "listPrinter" THEN onListPrinter(s, r)
         ELSE s
    ELSE IF r.kind = "upload" THEN onUpload(s, r)
    ELSE s   \* lines 621-625: the answer to a command is only logged

\* the timeout branch recording the state only when none is recorded
onTimeoutErrorKeepsRecord(s) ==
    setConnectionState(
        [s EXCEPT !.connection_state_before_timeout =
                      IF @ = None THEN s.connection_state ELSE @],
        "error")

\* lines 470-474: a reply with QNetworkReply.TimeoutError
onTimeoutError(s) ==
    setConnectionState(
        [s EXCEPT !.connection_state_before_timeout = s.connection_state],
        "error")

\* restoreConnectionState without line 480: the recorded state is kept
restoreKeepsRecord(s, r) ==
    IF Truthy(s.connection_state_before_timeout) /\ r.err = "NoError"
    THEN setConnectionState(s, s.connection_state_before_timeout)
    ELSE s

\* lines 476-480: a good reply while a state before the timeout is recorded
restoreConnectionState(s, r) ==
    IF Truthy(s.connection_state_before_timeout) /\ r.err = "NoError"
    THEN [setConnectionState(s, s.connection_state_before_timeout)
            EXCEPT !.connection_state_before_timeout = None]
    ELSE s

\* the response time recorded for a reply with status 200 only
recordResponseOk(s, r, t) ==
    IF r.err = "NoError" /\ r.status = 200
    THEN [s EXCEPT !.last_response_time = t]
    ELSE s

\* lines 482-483
recordResponse(s, r, t) ==
    IF r.err = "NoError" THEN [s EXCEPT !.last_response_time = t] ELSE s

\* _onRequestFinished, lines 469-628, at time t
onRequestFinished(s, r, t) ==
    IF r.err = "TimeoutError" THEN onTimeoutError(s)
    ELSE LET s1 == recordResponse(restoreConnectionState(s, r), r, t)
         IN IF r.status = NoStatus THEN s1 ELSE route(s1, r)

(***************************************************************************)
(* The poll.                                                               *)
(***************************************************************************)
\* lines 166-169
timeSinceLastResponse(s, t) ==
    IF s.last_response_time # NoTime THEN t - s.last_response_time ELSE 0

\* lines 170-173
timeSinceLastRequest(s, t) ==
    IF s.last_request_time # NoTime THEN t - s.last_request_time ELSE Infinity

RECURSIVE skipElapsed(_, _)
\* lines 183-184: while tsr - time * count > time: count += 1
skipElapsed(tsr, count) ==
    IF tsr - recreate_network_manager_time * count > recreate_network_manager_time
    THEN skipElapsed(tsr, count + 1)
    ELSE count

\* lines 178-179: the timeout lasted long enough to re-create the manager
recreateDue(s, t) ==
    /\ s.last_response_time # NoTime
    /\ Truthy(s.connection_state_before_timeout)
    /\ timeSinceLastResponse(s, t) >
           recreate_network_manager_time * s.recreate_network_manager_count

\* lines 180-187
recreate(s, t) ==
    createNetworkManager(
        [s EXCEPT !.recreate_network_manager_count =
                      skipElapsed(timeSinceLastResponse(s, t), @ + 1)])

\* lines 200-211: stop the upload that _post_reply holds.  abort() on a
\* running reply emits finished (operation cancelled) at once; a reply whose
\* C++ object is gone raises RuntimeError and the field is cleared.
abortUpload(s, t) ==
    IF s.post_reply = None THEN s
    ELSE IF s.post_reply = "deleted" THEN [s EXCEPT !.post_reply = None]
    ELSE LET s1 == IF s.post_reply = "running"
                   THEN onRequestFinished(
                            [Done(s, "upload") EXCEPT !.post_reply = "aborted"],
                            CancelledReply, t)
                   ELSE s
         IN [s1 EXCEPT !.progress_message = HideMessage(@)]

\* lines 190-212: the network is not accessible
networkLost(s, t) ==
    IF ~Truthy(s.connection_state_before_timeout)
    THEN abortUpload(
             [setConnectionState(
                  [s EXCEPT !.connection_state_before_timeout = s.connection_state],
                  "error")
                EXCEPT !.connection_message = "network"],
             t)
    ELSE s

\* lines 218-219: no answer for response_timeout_time although a request
\* was made within it
responseTimedOut(s, t) ==
    /\ s.last_response_time # NoTime
    /\ s.last_request_time # NoTime
    /\ ~Truthy(s.connection_state_before_timeout)
    /\ timeSinceLastResponse(s, t) > response_timeout_time
    /\ timeSinceLastRequest(s, t) <= response_timeout_time

\* lines 220-225
enterTimeout(s) ==
    setConnectionState(
        [s EXCEPT !.connection_state_before_timeout = s.connection_state,
                  !.connection_message = "server"],
        "error")

\* lines 227-239: the two polls
poll(s) ==
    Send(Send([s EXCEPT !.printer_request = [a |-> "stateList", id |-> 0]],
              "stateList"),
         "listPrinter")

\* _update resetting the counter on every tick that finds the network
\* accessible, whether a state before the timeout is recorded or not
updateResetsCounter(s, t, accessible) ==
    IF recreateDue(s, t) THEN recreate(s, t)
    ELSE IF ~accessible THEN networkLost(s, t)
    ELSE LET s1 == [s EXCEPT !.recreate_network_manager_count = 1]
             s2 == IF responseTimedOut(s1, t) THEN enterTimeout(s1) ELSE s1
         IN poll(s2)

\* _update, lines 165-239, at time t with networkAccessible() = accessible
update(s, t, accessible) ==
    IF recreateDue(s, t) THEN recreate(s, t)
    ELSE IF ~accessible THEN networkLost(s, t)
    ELSE LET s1 == IF ~Truthy(s.connection_state_before_timeout)
                   THEN [s EXCEPT !.recreate_network_manager_count = 1]
                   ELSE s
             s2 == IF responseTimedOut(s1, t) THEN enterTimeout(s1) ELSE s1
         IN poll(s2)

\* _update_camera, lines 159-163
updateCamera(s) == Send(s, "snapshot")

(***************************************************************************)
(* connect and close.                                                      *)
(***************************************************************************)
\* close counting its calls in the re-creation counter
closeCounts(s) ==
    [setConnectionState(updateJobState(s, ""), "closed")
       EXCEPT !.progress_message = HideMessage(@),
              !.error_message = HideMessage(@),
              !.update_timer = "stopped",
              !.camera_timer = FALSE,
              !.recreate_network_manager_count = 3 - @]

\* close, lines 248-258 (disconnect, lines 297-299, only calls it)
close(s) ==
    [setConnectionState(updateJobState(s, ""), "closed")
       EXCEPT !.progress_message = HideMessage(@),
              !.error_message = HideMessage(@),
              !.update_timer = "stopped",
              !.camera_timer = FALSE]

\* connect, lines 270-294; stack: a global container stack exists;
\* show_camera: its octoprint_show_camera entry
connect(s, stack, show_camera, t, accessible) ==
    IF ~stack THEN s
    ELSE LET s1 == update(setConnectionState(createNetworkManager(s), "connecting"),
                          t, accessible)
             s2 == [s1 EXCEPT !.update_timer = "waiting"]
             s3 == IF show_camera
                   THEN [updateCamera(s2) EXCEPT !.camera_timer = TRUE]
                   ELSE [s2 EXCEPT !.camera_timer = FALSE]
         IN setAcceptsCommands([s3 EXCEPT !.last_response_time = NoTime], FALSE)

(***************************************************************************)
(* The upload.                                                             *)
(***************************************************************************)
\* jobIdle refusing only a running print: a paused job lets a print start
jobNotPrinting(s) == s.job_state # "printing"

\* line 362: the job state lets a print start
jobIdle(s) == s.job_state = "ready" \/ s.job_state = ""

\* lines 353-368: the checks of startPrint, up to the progress message
startPrintBegin(s, stack) ==
    IF ~stack THEN s
    ELSE IF ~jobIdle(s)
    THEN [s EXCEPT !.error_message =
                       [text |-> "busy", progress |-> -1, visible |-> TRUE]]
    ELSE [s EXCEPT !.progress_message = NewProgressMessage("sending")]

\* lines 380-417: the payload is assembled; build the request and post it
startPrintPost(s) ==
    [Send(s, "upload") EXCEPT !.post_reply = "running", !.gcode = FALSE]

\* lines 423-425: `for line in self._gcode` raises on None
startPrintFails(s) == [s EXCEPT !.progress_message = HideMessage(@)]

\* startPrint, lines 353-425, when the loop of lines 373-378 never yields
startPrint(s, stack) ==
    IF stack /\ jobIdle(s)
    THEN IF s.gcode
         THEN startPrintPost(startPrintBegin(s, stack))
         ELSE startPrintFails(startPrintBegin(s, stack))
    ELSE startPrintBegin(s, stack)

\* requestWrite, lines 260-264
requestWrite(s, stack) == startPrint([s EXCEPT !.gcode = TRUE], stack)

\* line 636: bytes_sent / bytes_total * 100, a float in the code; its integer
\* part is kept, which orders the values as the floats are ordered for the
\* totals up to MaxBytes (distinct quotients differ by more than 1 there)
progressOf(bytes_sent, bytes_total) == (bytes_sent * 100) \div bytes_total

\* _onUploadProgress, lines 630-645, at time t
onUploadProgress(s, bytes_sent, bytes_total, t) ==
    IF bytes_total > 0
    THEN LET s1 == [s EXCEPT !.last_response_time = t]
             progress == progressOf(bytes_sent, bytes_total)
         IN IF progress < 100
            THEN IF progress > s1.progress_message.progress
                 THEN [s1 EXCEPT !.progress_message.progress = progress]
                 ELSE s1
            ELSE [s1 EXCEPT !.progress_message = NewProgressMessage("storing")]
    ELSE [s EXCEPT !.progress_message.progress = 0]

\* _setJobState, lines 315-349: "abort", "print" and "pause" each send one GET
setJobState(s) ==
    Send([s EXCEPT !.printer_request = [a |-> "command", id |-> 0]], "command")

\* _sendCommand, lines 427-435: the POST to <api>job.  The request is kept
\* in _command_request, not in _printer_request.
sendCommand(s) == Send(s, "command_post")

\* _moveHead, lines 463-466: three commands
moveHead(s) == sendCommand(sendCommand(sendCommand(s)))

(***************************************************************************)
(* The environment's inputs.                                               *)
(***************************************************************************)
\* what last_op keeps of a reply: its kind, error and status, the id of the
\* last model of the list in its body (0 when the body is not JSON or the
\* list is empty), the printer records of its body and whether it has a
\* Location header
Summary(r) ==
    [kind |-> r.kind, err |-> r.err, status |-> r.status,
     id |-> IF r.json /\ r.models # <<>> THEN r.models[Len(r.models)] ELSE 0,
     printers |-> r.printers, location |-> r.location]

\* the handler that ran last, with its input
Op(op, reply, sent, total, flag) ==
    [op |-> op, reply |-> Summary(reply), sent |-> sent, total |-> total,
     flag |-> flag]

\* QNetworkReply.error() and the HTTP status of one completion of a request
\* of kind k: the success status of the kind (201 for the upload, 204 for
\* a command posted, 200 for the others), a status Qt reports as an error of the reply (401 for the
\* status poll, 500 for the others), and no status at all for a timeout, a
\* refused connection or a cancelled operation
Outcomes(k) ==
    {<<"TimeoutError", NoStatus>>, <<"OtherError", NoStatus>>}
    \cup (IF k = "upload" THEN {<<"NoError", 201>>, <<"OtherError", 500>>}
          ELSE IF k = "command_post"
          THEN {<<"NoError", 204>>, <<"OtherError", 500>>}
          ELSE IF k = "stateList"
          THEN {<<"NoError", 200>>, <<"OtherError", 401>>, <<"OtherError", 500>>}
          ELSE {<<"NoError", 200>>, <<"OtherError", 500>>})

PrinterRecords ==
    [slug : {slug, "other"}, job : {"none", "cube"}, paused : {"true", "false"}]

ModelIds == {41, 42}

SeqsUpTo(S, n) == UNION {[1..m -> S] : m \in 0..n}

\* whether a finishing upload can be the reply _post_reply holds (TRUE) or
\* an older one that a later startPrint replaced there (FALSE)
HeldChoices(s) ==
    {h \in BOOLEAN :
        IF h THEN s.post_reply = "running"
        ELSE s.inflight["upload"] > (IF s.post_reply = "running" THEN 1 ELSE 0)}

\* whether an answer with status `status` may carry a Location header: the
\* header is drawn only where the handler reads it (line 583, status 201)
Locations(status) == IF status = 201 THEN BOOLEAN ELSE {FALSE}

\* the replies a request of kind k may get, with at most np printer records
\* and nm models in the body; the body is read only where the handler parses it
Replies(s, k, np, nm) ==
    IF k = "listPrinter"
    THEN {Reply(k, o[1], o[2], FALSE, <<>>, <<>>, FALSE, FALSE) :
            o \in Outcomes(k)}
         \cup {Reply(k, "NoError", 200, TRUE, p, <<>>, FALSE, FALSE) :
                 p \in SeqsUpTo(PrinterRecords, np)}
    ELSE IF k = "upload"
    THEN UNION {
             {Reply(k, o[1], o[2], FALSE, <<>>, <<>>, h, l) :
                h \in HeldChoices(s), l \in Locations(o[2])}
             \cup (IF o[2] = NoStatus THEN {}
                   ELSE {Reply(k, o[1], o[2], TRUE, <<>>, m, h, l) :
                           m \in SeqsUpTo(ModelIds, nm),
                           h \in HeldChoices(s), l \in Locations(o[2])})
             : o \in Outcomes(k)}
    ELSE {Reply(k, o[1], o[2], TRUE, <<>>, <<>>, FALSE, FALSE) :
            o \in Outcomes(k)}

\* the reply r leaves the manager: it is no longer in flight
deliver(s, r) ==
    [Done(s, r.kind) EXCEPT
        !.post_reply = IF r.kind = "upload" /\ r.held THEN "finished" ELSE @]

\* the model's cap on the requests in flight
Bounded(s) ==
    \A k \in Kinds :
        s.inflight[k] <= IF k = "command_post" THEN MaxCommands
                         ELSE MaxOutstanding

\* the clock's steps: one poll interval, or a sleep of the machine longer
\* than k re-creation intervals, for k up to sleeps
TimeSteps(sleeps) ==
    {UpdateInterval} \cup
    {k * recreate_network_manager_time + 1 : k \in 1..sleeps}

(***************************************************************************)
(* Init and the actions.                                                   *)
(***************************************************************************)
\* the object as __init__ leaves it, lines 23-106
Init ==
    /\ connection_state = InitSelf.connection_state
    /\ connection_state_before_timeout = InitSelf.connection_state_before_timeout
    /\ last_response_time = InitSelf.last_response_time
    /\ last_request_time = InitSelf.last_request_time
    /\ recreate_network_manager_count = InitSelf.recreate_network_manager_count
    /\ update_timer = InitSelf.update_timer
    /\ camera_timer = InitSelf.camera_timer
    /\ inflight = InitSelf.inflight
    /\ orphaned = InitSelf.orphaned
    /\ printer_request = InitSelf.printer_request
    /\ job_state = InitSelf.job_state
    /\ accepts_commands = InitSelf.accepts_commands
    /\ gcode = InitSelf.gcode
    /\ post_reply = InitSelf.post_reply
    /\ progress_message = InitSelf.progress_message
    /\ error_message = InitSelf.error_message
    /\ connection_message = InitSelf.connection_message
    /\ assembling = 0
    /\ now = StartTime
    /\ network_accessible \in BOOLEAN
    /\ last_op = Op("init", NoReply, 0, 0, FALSE)

\* a handler ran to its end and left the object s
Handled(s, op) ==
    /\ Bounded(s)
    /\ Becomes(s)
    /\ last_op' = op
    /\ UNCHANGED <<now, network_accessible>>

\* connect(); cameras: the values of the octoprint_show_camera entry
Connect(cameras) ==
    \E stack \in BOOLEAN, show_camera \in cameras :
        /\ Handled(connect(Self, stack, show_camera, now, network_accessible),
                   Op("connect", NoReply, 0, 0, stack))
        /\ UNCHANGED assembling

\* disconnect() / close()
Disconnect ==
    /\ Handled(close(Self), Op("close", NoReply, 0, 0, FALSE))
    /\ UNCHANGED assembling

\* _update_timer fires
UpdateTick ==
    /\ update_timer = "due"
    /\ Handled([update(Self, now, network_accessible) EXCEPT !.update_timer = "waiting"],
               Op("update", NoReply, 0, 0, network_accessible))
    /\ UNCHANGED assembling

\* _camera_timer fires (every 500 ms: several times between two polls)
CameraTick ==
    /\ camera_timer
    /\ Handled(updateCamera(Self), Op("update_camera", NoReply, 0, 0, FALSE))
    /\ UNCHANGED assembling

\* the manager's finished signal: a request of one of `kinds` completes
RequestFinished(kinds, np, nm) ==
    \E k \in kinds :
        /\ inflight[k] > 0
        /\ \E r \in Replies(Self, k, np, nm) :
               Handled(onRequestFinished(deliver(Self, r), r, now),
                       Op("finished", r, 0, 0, FALSE))
        /\ UNCHANGED assembling

\* the last reply of a discarded manager ends; nothing is connected to it
OrphanFinished ==
    /\ orphaned
    /\ Handled([Self EXCEPT !.orphaned = FALSE], Op("orphan", NoReply, 0, 0, FALSE))
    /\ UNCHANGED assembling

\* the uploadProgress signal of an upload in flight
UploadProgress ==
    /\ inflight["upload"] > 0
    /\ \E bytes_total \in {0, MaxBytes} : \E bytes_sent \in 0..bytes_total :
           Handled(onUploadProgress(Self, bytes_sent, bytes_total, now),
                   Op("progress", NoReply, bytes_sent, bytes_total, FALSE))
    /\ UNCHANGED assembling

\* requestWrite(): the scene's g-code, then startPrint() without a yield
RequestWrite ==
    \E stack \in BOOLEAN :
        /\ Handled(requestWrite(Self, stack), Op("startPrint", NoReply, 0, 0, stack))
        /\ UNCHANGED assembling

\* startPrint() on the g-code the device holds, without a yield
StartPrint ==
    \E stack \in BOOLEAN :
        /\ Handled(startPrint(Self, stack), Op("startPrint", NoReply, 0, 0, stack))
        /\ UNCHANGED assembling

\* requestWrite() whose startPrint() reaches processEvents() (line 377) while
\* it assembles the payload: the events that follow run inside that call
RequestWriteYields ==
    /\ assembling < MaxNesting
    /\ jobIdle(Self)
    /\ Handled(startPrintBegin([Self EXCEPT !.gcode = TRUE], TRUE),
               Op("startPrintYields", NoReply, 0, 0, TRUE))
    /\ assembling' = assembling + 1

\* processEvents() returns to the suspended startPrint(), which posts
StartPrintResumes ==
    /\ assembling > 0
    /\ Handled(startPrintPost(Self), Op("startPrintResumes", NoReply, 0, 0, TRUE))
    /\ assembling' = assembling - 1

\* _setJobState(): pause, resume or cancel
SetJobState ==
    /\ Handled(setJobState(Self), Op("setJobState", NoReply, 0, 0, FALSE))
    /\ UNCHANGED assembling

\* a command that posts once: _setTargetBedTemperature,
\* _setTargetHotendTemperature, _setHeadPosition, _setHeadX, _setHeadY,
\* _setHeadZ, _homeHead, _homeBed (lines 437-461)
SendCommand ==
    /\ Handled(sendCommand(Self), Op("sendCommand", NoReply, 0, 0, FALSE))
    /\ UNCHANGED assembling

\* _moveHead()
MoveHead ==
    /\ Handled(moveHead(Self), Op("moveHead", NoReply, 0, 0, FALSE))
    /\ UNCHANGED assembling

\* time passes, up to max; a running timer becomes due, and is served before
\* more time passes
AdvanceTime(max, sleeps) ==
    \E d \in TimeSteps(sleeps) :
        /\ update_timer # "due"
        /\ now + d <= max
        /\ now' = now + d
        /\ update_timer' = IF update_timer = "waiting" THEN "due" ELSE update_timer
        /\ last_op' = Op("time", NoReply, 0, 0, FALSE)
        /\ UNCHANGED <<connection_state, connection_state_before_timeout,
                       last_response_time, last_request_time,
                       recreate_network_manager_count, camera_timer, inflight,
                       orphaned, printer_request, job_state, accepts_commands,
                       gcode, post_reply, progress_message, error_message,
                       connection_message, assembling, network_accessible>>

\* the network goes away or comes back
NetworkChanges ==
    /\ network_accessible' = ~network_accessible
    /\ last_op' = Op("network", NoReply, 0, 0, FALSE)
    /\ UNCHANGED <<fields, assembling, now>>

(***************************************************************************)
(* The device with all its operations.                                     *)
(***************************************************************************)
Next ==
    \/ Connect(BOOLEAN)
    \/ Disconnect
    \/ UpdateTick
    \/ CameraTick
    \/ RequestFinished(Kinds, MaxPrinters, MaxModels)
    \/ OrphanFinished
    \/ UploadProgress
    \/ RequestWrite
    \/ StartPrint
    \/ RequestWriteYields
    \/ StartPrintResumes
    \/ SetJobState
    \/ SendCommand
    \/ MoveHead
    \/ AdvanceTime(MaxTime, LongSleeps)
    \/ NetworkChanges

Spec == Init /\ [][Next]_vars

(***************************************************************************)
(* The connection state machine: connect, disconnect, the poll timer, the  *)
(* clock, the network and the answers to the polls.  No print is started   *)
(* and the camera is switched off.                                         *)
(***************************************************************************)
NextConn ==
    \/ Connect({FALSE})
    \/ Disconnect
    \/ UpdateTick
    \/ RequestFinished({"stateList", "listPrinter"}, 0, 0)
    \/ OrphanFinished
    \/ AdvanceTime(MaxTime, LongSleeps)
    \/ NetworkChanges

SpecConn == Init /\ [][NextConn]_vars

(***************************************************************************)
(* A long silence: the device connects, polls and is answered while the    *)
(* clock runs far enough for the manager to be re-created.  The network    *)
(* stays accessible, so timeouts are recorded by timeout replies.          *)
(***************************************************************************)
\* the network is there from the start and stays
InitAccessible == Init /\ network_accessible

NextStall ==
    \/ Connect({FALSE})
    \/ Disconnect
    \/ UpdateTick
    \/ RequestFinished({"stateList", "listPrinter"}, 0, 0)
    \/ AdvanceTime(MaxStallTime, LongSleeps)

SpecStall == InitAccessible /\ [][NextStall]_vars

(***************************************************************************)
(* Prints on a device that connects and disconnects: the job poll decides  *)
(* whether a print may start.  The clock stands still, so the poll timer   *)
(* never fires.                                                            *)
(***************************************************************************)
NextJob ==
    \/ Connect({FALSE})
    \/ Disconnect
    \/ RequestFinished({"listPrinter", "upload"}, 1, 1)
    \/ RequestWrite
    \/ StartPrint

SpecJob == InitAccessible /\ [][NextJob]_vars

(***************************************************************************)
(* The upload sequence: prints are started, their progress is reported     *)
(* and the POST and the copyModel request are answered.                    *)
(***************************************************************************)
NextUpload ==
    \/ Disconnect
    \/ RequestFinished({"upload", "copyModel"}, 0, MaxModels)
    \/ UploadProgress
    \/ RequestWrite
    \/ StartPrint

SpecUpload == InitAccessible /\ [][NextUpload]_vars

(***************************************************************************)
(* Outages: a device that is connected once lives through losses of the    *)
(* network and long silences; the replies of a discarded manager end       *)
(* unheard.                                                                *)
(***************************************************************************)
\* connect() on a device that is Closed
FirstConnect == connection_state = "closed" /\ Connect({FALSE})

NextOutage ==
    \/ FirstConnect
    \/ UpdateTick
    \/ RequestFinished({"stateList", "listPrinter"}, 0, 0)
    \/ OrphanFinished
    \/ AdvanceTime(MaxOutageTime, LongSleeps)
    \/ NetworkChanges

SpecOutage == InitAccessible /\ [][NextOutage]_vars

(***************************************************************************)
(* Uploads on a device whose network comes and goes, at the pace of the    *)
(* poll timer.                                                             *)
(***************************************************************************)
NextDrop ==
    \/ FirstConnect
    \/ UpdateTick
    \/ RequestFinished({"stateList", "listPrinter", "upload"}, 0, 0)
    \/ RequestWrite
    \/ AdvanceTime(MaxDropTime, 0)
    \/ NetworkChanges

SpecDrop == InitAccessible /\ [][NextDrop]_vars

(***************************************************************************)
(* The claims.                                                             *)
(***************************************************************************)
\* a reply was handled by _onRequestFinished in this step
Finished == last_op'.op = "finished"

\* the poll timer's _update ran in this step
Ticked == last_op'.op = "update"

\* C1: ConnectionState leaves Closed only by connect(), which makes it
\* Connecting: no other step -- in particular no completion delivered after
\* disconnect() -- takes it from Closed to Connected or to Error.
C1_ClosedUntilConnect ==
    [][(connection_state = "closed" /\ last_op'.op # "connect")
          => connection_state' = "closed"]_vars

\* C2: when no good reply came for more than response_timeout_time, a poll
\* is still unanswered, the network is accessible and no timeout is recorded
\* yet, the timer's tick records the state and enters Error.
C2_TickDetectsStall ==
    [][(/\ Ticked
        /\ network_accessible
        /\ connection_state \in {"connecting", "connected"}
        /\ connection_state_before_timeout = None
        /\ last_response_time # NoTime
        /\ now - last_response_time > response_timeout_time
        /\ inflight["stateList"] + inflight["listPrinter"] > 0)
          => (/\ connection_state' = "error"
              /\ connection_state_before_timeout' = connection_state)]_vars

\* C3: once a reply without a transport error is handled on a connected
\* device (its timers run) that is in Error, the device is no longer in
\* Error, whatever timeout replies and unreachable ticks came before.
C3_ErrorRecovers ==
    [][(/\ Finished
        /\ last_op'.reply.err = "NoError"
        /\ update_timer # "stopped"
        /\ connection_state = "error")
          => connection_state' # "error"]_vars

\* C5 as claimed: connect() on a fresh device (a machine is configured, the
\* network is accessible) dispatches both polls at once and leaves it
\* Connecting, and the first reply with status 200 -- of any request --
\* makes it Connected.
C5_First200Connects ==
    [][/\ (/\ last_op'.op = "connect"
           /\ last_op'.flag
           /\ network_accessible
           /\ Self = InitSelf)
            => (/\ connection_state' = "connecting"
                /\ inflight'["stateList"] = 1
                /\ inflight'["listPrinter"] = 1)
       /\ (/\ Finished
           /\ last_op'.reply.status = 200
           /\ connection_state = "connecting"
           /\ connection_state_before_timeout = None)
            => connection_state' = "connected"]_vars

\* C5, amended: connect() on a fresh device, with a machine configured and
\* the network accessible, dispatches the status poll and the job poll at
\* once -- the timer it starts has not fired -- and leaves the device
\* Connecting.  While the device is Connecting and no timeout is recorded,
\* a status-poll reply with status 200 makes it Connected, a reply with a
\* timeout error makes it Error, and every other reply leaves it Connecting.
C5_ConnectPollsAtOnce ==
    [][/\ (/\ last_op'.op = "connect"
           /\ last_op'.flag
           /\ network_accessible
           /\ Self = InitSelf)
            => (/\ connection_state' = "connecting"
                /\ inflight'["stateList"] = 1
                /\ inflight'["listPrinter"] = 1
                /\ update_timer' = "waiting")
       /\ (/\ Finished
           /\ connection_state = "connecting"
           /\ ~Truthy(connection_state_before_timeout))
            => connection_state' =
                 IF last_op'.reply.err = "TimeoutError" THEN "error"
                 ELSE IF last_op'.reply.kind = "stateList" /\ last_op'.reply.status = 200
                 THEN "connected"
                 ELSE "connecting"]_vars

\* C5, witness: the first answers arrived on a freshly connected device
\* before its timer fired; the 200 answer to the status poll was handled
\* last and the device is Connected.
C5_Witness ==
    /\ last_op.op = "finished"
    /\ last_op.reply.kind = "stateList"
    /\ last_op.reply.status = 200
    /\ connection_state = "connected"
    /\ connection_state_before_timeout = None
    /\ update_timer = "waiting"
    /\ now = StartTime
    /\ inflight = NoInflight
    /\ ~orphaned

\* C4 as claimed: a reply without a transport error, handled while a state
\* before the timeout is recorded, leaves the device in that state, the
\* record cleared and the re-creation counter at 1.
C4_GoodReplyResetsAll ==
    [][(/\ Finished
        /\ last_op'.reply.err = "NoError"
        /\ connection_state_before_timeout # None)
          => (/\ connection_state' = connection_state_before_timeout
              /\ connection_state_before_timeout' = None
              /\ recreate_network_manager_count' = 1)]_vars

\* C4, amended: a reply without a transport error, handled while a state
\* other than Closed is recorded as the state before the timeout, clears the
\* record and leaves the device in the recorded state -- or Connected, when
\* Connecting was recorded and the reply is a status poll's with status 200.
\* While Closed is the recorded state such a reply restores nothing: the
\* record stays and only a status poll's reply with status 200 changes the
\* state, from Connecting to Connected.  The reply does not touch the
\* re-creation counter: the next tick that finds the network accessible and
\* no state other than Closed recorded resets it to 1.
C4_GoodReplyRestores ==
    [][/\ (/\ Finished
           /\ last_op'.reply.err = "NoError"
           /\ Truthy(connection_state_before_timeout))
            => (/\ connection_state_before_timeout' = None
                /\ connection_state' =
                     IF /\ connection_state_before_timeout = "connecting"
                        /\ last_op'.reply.kind = "stateList"
                        /\ last_op'.reply.status = 200
                     THEN "connected"
                     ELSE connection_state_before_timeout
                /\ recreate_network_manager_count' = recreate_network_manager_count)
       /\ (/\ Finished
           /\ last_op'.reply.err = "NoError"
           /\ connection_state_before_timeout = "closed")
            => (/\ connection_state_before_timeout' = "closed"
                /\ connection_state' =
                     IF /\ connection_state = "connecting"
                        /\ last_op'.reply.kind = "stateList"
                        /\ last_op'.reply.status = 200
                     THEN "connected"
                     ELSE connection_state
                /\ recreate_network_manager_count' = recreate_network_manager_count)
       /\ (/\ Ticked
           /\ network_accessible
           /\ ~Truthy(connection_state_before_timeout))
            => recreate_network_manager_count' = 1]_vars

\* C4, witness: a good reply has just ended a timeout during which the
\* manager was re-created; the record is cleared and the counter still 2.
C4_Witness ==
    /\ last_op.op = "finished"
    /\ last_op.reply.err = "NoError"
    /\ connection_state_before_timeout = None
    /\ connection_state = "connected"
    /\ last_response_time = now
    /\ recreate_network_manager_count = 2

\* C6: after disconnect() both timers are stopped, no upload is in flight
\* and the device is Closed.
C6_CloseAbortsUpload ==
    [][last_op'.op = "close"
          => (/\ update_timer' = "stopped"
              /\ ~camera_timer'
              /\ inflight'["upload"] = 0
              /\ connection_state' = "closed")]_vars

\* C7: startPrint() while the job state is neither "ready" nor unknown sends
\* no request and starts no upload -- the requests in flight, the reply held
\* and the progress message are as before -- and, a machine being
\* configured, shows the "unable to start a new job" message.
C7_BusyRejected ==
    [][(/\ last_op'.op = "startPrint"
        /\ job_state \notin {"ready", ""})
          => (/\ inflight' = inflight
              /\ post_reply' = post_reply
              /\ printer_request' = printer_request
              /\ progress_message' = progress_message
              /\ (last_op'.flag =>
                    /\ error_message'.text = "busy"
                    /\ error_message'.visible))]_vars

\* C7, witness: a print was refused while the printer is printing.
C7_Witness ==
    /\ last_op.op = "startPrint"
    /\ last_op.flag
    /\ job_state = "printing"
    /\ error_message.text = "busy"
    /\ error_message.visible
    /\ inflight["upload"] = 0
    /\ post_reply = None

\* C8: when the upload's reply has status 201 and a JSON body with a
\* non-empty model list, the handler sends the copyModel request with the id
\* of the list's last entry: it is the request the device made last and one
\* more of them is in flight.
C8_CopyLastModel ==
    [][(/\ Finished
        /\ last_op'.reply.kind = "upload"
        /\ last_op'.reply.status = 201
        /\ last_op'.reply.id # 0)
          => (/\ printer_request' = [a |-> "copyModel", id |-> last_op'.reply.id]
              /\ inflight'["copyModel"] = inflight["copyModel"] + 1
              /\ inflight'["upload"] = inflight["upload"] - 1)]_vars

\* C9: when the upload's reply has a status other than 201, no copyModel
\* request is sent and an error message is shown.
C9_FailedUploadStops ==
    [][(/\ Finished
        /\ last_op'.reply.kind = "upload"
        /\ last_op'.reply.status \notin {NoStatus, 201})
          => (/\ inflight'["copyModel"] = inflight["copyModel"]
              /\ error_message'.visible)]_vars

\* the progress an observer sees: the value of the message, and 100 for the
\* fresh "storing" message that replaces it when the upload reaches 100 %
ShownProgress(m) == IF m.text = "storing" /\ m.progress = -1 THEN 100 ELSE m.progress

\* C10: an upload progress event with a known total never lowers the
\* progress shown.
C10_ProgressMonotonic ==
    [][(last_op'.op = "progress" /\ last_op'.total # 0)
          => ShownProgress(progress_message') >= ShownProgress(progress_message)]_vars

\* C11: at most one status poll, one job poll and one camera snapshot
\* request is in flight at any moment.
C11_OnePollOutstanding ==
    /\ inflight["stateList"] <= 1
    /\ inflight["listPrinter"] <= 1
    /\ inflight["snapshot"] <= 1

\* C20: connect() on a configured machine with the network accessible leaves
\* the last response time unset, no state before a timeout recorded and the
\* re-creation counter at 1.
C20_ConnectClearsLiveness ==
    [][(last_op'.op = "connect" /\ last_op'.flag /\ network_accessible)
          => (/\ last_response_time' = NoTime
              /\ connection_state_before_timeout' = None
              /\ recreate_network_manager_count' = 1)]_vars

\* C15: a completion with a transport timeout error leaves the device in
\* Error with the state it was in recorded as the state before the timeout,
\* whatever was recorded before; it is not counted as a response (the last
\* response time stays) and no handler sees it: the job state, the
\* accepts-commands flag, the request of the device, the messages and the
\* re-creation counter stay, and nothing is sent.
C15_TimeoutReplyEntersError ==
    [][(Finished /\ last_op'.reply.err = "TimeoutError")
          => (/\ connection_state' = "error"
              /\ connection_state_before_timeout' = connection_state
              /\ last_response_time' = last_response_time
              /\ recreate_network_manager_count' = recreate_network_manager_count
              /\ job_state' = job_state
              /\ accepts_commands' = accepts_commands
              /\ printer_request' = printer_request
              /\ progress_message' = progress_message
              /\ error_message' = error_message
              /\ inflight' = [inflight EXCEPT ![last_op'.reply.kind] = @ - 1])]_vars

\* C15, witness: a timeout reply interrupted a connected device that had
\* been answered before.
C15_Witness ==
    /\ last_op.op = "finished"
    /\ last_op.reply.err = "TimeoutError"
    /\ connection_state = "error"
    /\ connection_state_before_timeout = "connected"
    /\ last_response_time # NoTime
    /\ last_response_time < now

\* C13: a tick of the poll timer that finds the network not accessible
\* leaves the device in Error, with the state before the timeout recorded
\* -- the one recorded already, or else the state the tick found -- and
\* sends no status poll and no job poll.
C13_UnreachableTick ==
    [][(Ticked /\ ~network_accessible)
          => (/\ connection_state' = "error"
              /\ connection_state_before_timeout' =
                     IF connection_state_before_timeout # None
                     THEN connection_state_before_timeout
                     ELSE connection_state
              /\ inflight'["stateList"] <= inflight["stateList"]
              /\ inflight'["listPrinter"] <= inflight["listPrinter"])]_vars

\* C18: a completion without a timeout error -- whatever its status -- and a
\* startPrint() never move the device into Error or Closed.
C18_OnlyTimeoutsEnterError ==
    [][((Finished /\ last_op'.reply.err # "TimeoutError")
          \/ last_op'.op = "startPrint")
          => (connection_state' \in {"error", "closed"}
                 => connection_state' = connection_state)]_vars

\* the records of a job poll's body that carry the device's slug
Matching(printers) == {i \in DOMAIN printers : printers[i].slug = slug}

\* C19: after a job poll's reply with status 200 and printer records in its
\* body is handled, the job state is the one of the record with the device's
\* slug -- "paused" when its paused field is "true", else "printing" when its
\* job is not "none", else "ready" -- and "offline" when no record carries
\* the slug.
C19_JobStateFromRecord ==
    [][(/\ Finished
        /\ last_op'.reply.kind = "listPrinter"
        /\ last_op'.reply.status = 200
        /\ last_op'.reply.printers # <<>>)
          => LET printers == last_op'.reply.printers
             IN IF Matching(printers) = {}
                THEN job_state' = "offline"
                ELSE \E i \in Matching(printers) :
                        job_state' =
                          IF printers[i].paused = "true" THEN "paused"
                          ELSE IF printers[i].job # "none" THEN "printing"
                          ELSE "ready"]_vars

\* C12: at the tick that comes 16 seconds after the last response the
\* device is in Error and the manager has been re-created once (the
\* re-creation counter, 1 before the silence, is 2).
C12_SixteenSecondsOfSilence ==
    (/\ last_op.op = "update"
     /\ last_response_time # NoTime
     /\ now - last_response_time = 16)
       => (/\ connection_state = "error"
           /\ recreate_network_manager_count = 2)

\* C14 as claimed: a tick that finds the network accessible again, the
\* device being in Error with the loss of the network recorded, resets the
\* re-creation counter to 1 and leaves the device in Error.
C14_RecoveryResetsCounter ==
    [][(/\ Ticked
        /\ network_accessible
        /\ connection_state = "error"
        /\ connection_message = "network"
        /\ connection_state_before_timeout # None)
          => (/\ recreate_network_manager_count' = 1
              /\ connection_state' = "error")]_vars

\* C14, amended: a tick that finds the network accessible leaves a device
\* that is in Error in Error.  While a state other than Closed is recorded
\* as the state before the timeout the tick does not reset the re-creation
\* counter: it raises it (and re-creates the manager) when a response was
\* received before and the silence has lasted more than 30 s times the
\* counter, and leaves it as it is otherwise.  Only a tick that finds no
\* such state recorded -- a reply without a transport error has cleared it
\* -- resets the counter to 1.
C14_RecoveryKeepsCounter ==
    [][(Ticked /\ network_accessible)
          => (/\ connection_state = "error" => connection_state' = "error"
              /\ IF ~Truthy(connection_state_before_timeout)
                 THEN recreate_network_manager_count' = 1
                 ELSE IF /\ last_response_time # NoTime
                         /\ now - last_response_time >
                              recreate_network_manager_time
                                * recreate_network_manager_count
                 THEN /\ recreate_network_manager_count' >
                           recreate_network_manager_count
                      /\ inflight' = NoInflight
                 ELSE recreate_network_manager_count' =
                          recreate_network_manager_count)]_vars

\* C14, witness: the network is back after an outage during which the
\* manager was re-created; the tick has polled again, the counter is still
\* 2 and the device still in Error.
C14_Witness ==
    /\ last_op.op = "update"
    /\ last_op.flag
    /\ network_accessible
    /\ connection_state = "error"
    /\ connection_message = "network"
    /\ Truthy(connection_state_before_timeout)
    /\ recreate_network_manager_count = 2
    /\ inflight["stateList"] > 0

\* C16: a tick that finds the network not accessible while an upload is in
\* flight leaves no upload in flight and the progress message hidden.
C16_OutageAbortsUpload ==
    [][(Ticked /\ ~network_accessible /\ inflight["upload"] > 0)
          => (/\ inflight'["upload"] = 0
              /\ ~progress_message'.visible)]_vars

\* C17: the tick that re-creates the manager takes every request in flight
\* off the device -- none of them is handed to _onRequestFinished any more
\* -- and when such a request ends afterwards, no field of the device
\* changes: not the connection state, the record of the state before the
\* timeout, the last response time, the counter, the job state, the
\* accepts-commands flag, nor the messages.
C17_OrphansIgnored ==
    [][/\ (/\ Ticked
           /\ last_response_time # NoTime
           /\ Truthy(connection_state_before_timeout)
           /\ now - last_response_time >
                recreate_network_manager_time * recreate_network_manager_count)
            => (/\ inflight' = NoInflight
                /\ orphaned' = (orphaned \/ AnyInflight(Self)))
       /\ last_op'.op = "orphan"
            => UNCHANGED <<connection_state, connection_state_before_timeout,
                           last_response_time, last_request_time,
                           recreate_network_manager_count, update_timer,
                           camera_timer, inflight, printer_request, job_state,
                           accepts_commands, gcode, post_reply, progress_message,
                           error_message, connection_message>>]_vars

\* C17, witness: a request of the manager that a tick discarded during a
\* timeout has just ended; the device is still in Error, the record and the
\* raised counter are as the tick left them.
C17_Witness ==
    /\ last_op.op = "orphan"
    /\ ~orphaned
    /\ connection_state = "error"
    /\ Truthy(connection_state_before_timeout)
    /\ recreate_network_manager_count = 2
    /\ inflight = NoInflight

\* C21: disconnect() is idempotent: in the state a disconnect() leaves, a
\* second disconnect() changes no field of the device, and a disconnect()
\* that follows a disconnect() changes none.
C21_CloseIdempotent ==
    [][/\ last_op'.op = "close" => close(Self)' = Self'
       /\ (last_op.op = "close" /\ last_op'.op = "close") => UNCHANGED fields]_vars

\* C21, witness: disconnect() was called on a device that had been
\* answered, with a state recorded before a timeout and polls in flight.
C21_Witness ==
    /\ last_op.op = "close"
    /\ connection_state = "closed"
    /\ update_timer = "stopped"
    /\ job_state = ""
    /\ last_response_time # NoTime
    /\ connection_state_before_timeout = "connected"
    /\ inflight["stateList"] > 0

\* C23: the accepts-commands flag is FALSE after connect() on a configured
\* machine, TRUE after a status poll's reply with status 200, FALSE after a
\* status poll's reply with status 401, and no other step changes it.
C23_AcceptsCommands ==
    [][accepts_commands' =
         IF last_op'.op = "connect" /\ last_op'.flag THEN FALSE
         ELSE IF /\ Finished
                 /\ last_op'.reply.kind = "stateList"
                 /\ last_op'.reply.status = 200 THEN TRUE
         ELSE IF /\ Finished
                 /\ last_op'.reply.kind = "stateList"
                 /\ last_op'.reply.status = 401 THEN FALSE
         ELSE accepts_commands]_vars

\* C23, witness: a connected device that accepted commands was answered 401
\* by the status poll and accepts none now.
C23_Witness ==
    /\ last_op.op = "finished"
    /\ last_op.reply.kind = "stateList"
    /\ last_op.reply.status = 401
    /\ connection_state = "connected"
    /\ ~accepts_commands

\* C25: at most one upload is in flight.
C25_OneUpload == inflight["upload"] <= 1

\* C26: a completion handled right after disconnect() sends no request.
C26_NoRequestAfterClose ==
    [][(last_op.op = "close" /\ Finished)
          => \A k \in Kinds : inflight'[k] <= inflight[k]]_vars

(***************************************************************************)
(* Long uploads: the clock runs while an upload is in flight and reports   *)
(* its progress; no poll timer is running.                                 *)
(***************************************************************************)
NextLongUpload ==
    \/ RequestFinished({"upload", "copyModel"}, 0, 1)
    \/ UploadProgress
    \/ RequestWrite
    \/ AdvanceTime(MaxTime, 0)

SpecLongUpload == InitAccessible /\ [][NextLongUpload]_vars

\* C22: every reply without a transport error sets the last response time
\* to the current time, whatever its kind and status; an upload-progress
\* event with a total above zero sets it too, and one with a total of zero
\* leaves it as it was.
C22_ResponsesRefresh ==
    [][/\ (Finished /\ last_op'.reply.err = "NoError")
             => last_response_time' = now
       /\ (last_op'.op = "progress" /\ last_op'.total > 0)
             => last_response_time' = now
       /\ (last_op'.op = "progress" /\ last_op'.total = 0)
             => last_response_time' = last_response_time]_vars

\* C22, witness: an upload still in flight later than one timeout after the
\* start reported progress out of a known total, and the last response time
\* is the current time.
C22_Witness ==
    /\ last_op.op = "progress"
    /\ last_op.total > 0
    /\ inflight["upload"] > 0
    /\ now > StartTime + response_timeout_time
    /\ last_response_time = now

\* C22 as stated: every reply without a transport error and every
\* upload-progress event sets the last response time to the current time.
C22_EveryProgressRefreshes ==
    [][/\ (Finished /\ last_op'.reply.err = "NoError")
             => last_response_time' = now
       /\ last_op'.op = "progress" => last_response_time' = now]_vars

(***************************************************************************)
(* Yields: startPrint hands control to the event loop while it assembles   *)
(* the payload, and the replies to the polls and to commands,             *)
(* disconnect(), a command and a second startPrint are handled before it   *)
(* posts.                                                                  *)
(***************************************************************************)
NextYield ==
    \/ FirstConnect
    \/ Disconnect
    \/ RequestFinished({"stateList", "listPrinter", "command_post"}, 1, 0)
    \/ StartPrint
    \/ SendCommand
    \/ MoveHead
    \/ RequestWriteYields
    \/ StartPrintResumes

SpecYield == InitAccessible /\ [][NextYield]_vars

\* C27: startPrint resumed after a yield posts the upload only if the job
\* state is "ready" or "" at that moment.
C27_IdleWhenPosted ==
    [][(/\ last_op'.op = "startPrintResumes"
        /\ inflight'["upload"] > inflight["upload"])
          => job_state \in {"ready", ""}]_vars

(***************************************************************************)
(* Long silences: a device that is connected once and answered, then       *)
(* answered by timeouts only, while the machine may sleep.                 *)
(***************************************************************************)
NextSilence ==
    \/ FirstConnect
    \/ UpdateTick
    \/ RequestFinished({"stateList", "listPrinter"}, 0, 0)
    \/ AdvanceTime(MaxSilenceTime, LongSleeps)

SpecSilence == InitAccessible /\ [][NextSilence]_vars

\* C24: a tick that re-creates the network manager leaves the counter so
\* high that the tick one poll interval later does not re-create it again.
C24_NoRecreateOnNextTick ==
    [][(Ticked /\ recreateDue(Self, now))
          => ~(now + UpdateInterval - last_response_time' >
                 recreate_network_manager_time * recreate_network_manager_count')]_vars

====
